---- MODULE Spec2Model ----
(***************************************************************************)
(* A model of issue-metrics' business-time measurement:                    *)
(*   business_duration.py        business_duration (calendar from the      *)
(*                               process environment)                      *)
(*   time_to_first_response.py   measure_time_to_first_response,           *)
(*                               ignore_comment, businessDuration,         *)
(*                               get_stats_time_to_first_response          *)
(*                                                                         *)
(* Instants are whole minutes since 2023-01-01T00:00, a Sunday; durations  *)
(* are minutes.  An optional value (None, an unset environment variable, a *)
(* pending timestamp) is the empty sequence, a present one is <<v>>.       *)
(***************************************************************************)
EXTENDS Integers, Sequences, FiniteSets

VARIABLES
    pc,                \* "idle", then where the running call stands
    environ,           \* os.environ: the three INPUT_ settings
    start, end,        \* business_duration's arguments
    workday_start,     \* business_duration.py:24
    workday_end,       \* business_duration.py:25
    weekend_days_int,  \* business_duration.py:47
    current,           \* business_duration.py:53
    total_duration,    \* business_duration.py:50
    iterations,        \* how often the body of the loop at line 54 has run
    call,              \* the arguments of the call to time_to_first_response.py
    first_comment_time,         \* time_to_first_response.py:49
    first_review_comment_time,  \* time_to_first_response.py:48
    earliest_response,          \* time_to_first_response.py:50
    issue_time,                 \* time_to_first_response.py:51
    outcome,           \* what the call raised, or the value it returned
    issues,            \* get_stats_time_to_first_response's argument
    stats              \* what get_stats_time_to_first_response returned

durationVars == <<start, end, workday_start, workday_end, weekend_days_int,
                  current, total_duration, iterations>>

responseVars == <<call, first_comment_time, first_review_comment_time,
                  earliest_response, issue_time, outcome>>

statsVars == <<issues, stats>>

vars == <<pc, environ, durationVars, responseVars, statsVars>>

----------------------------------------------------------------------------
(* Bounds of the model *)

\* instants lie on the days 2023-01-01 .. 2023-01-01 + MaxDay
MaxDay == 8
\* end's date is at most MaxSpan days after start's date
MaxSpan == 3
\* an issue or pull request has at most MaxEntries comments and reviews together
MaxEntries == 3
\* a discussion has at most MaxReplies replies
MaxReplies == 2
\* get_stats_time_to_first_response is given at most MaxIssues issues
MaxIssues == 3

----------------------------------------------------------------------------
(* datetime and timedelta *)

OneDay == 24 * 60

Hours(h) == h * 60

At(day, hour, minute) == day * OneDay + hour * 60 + minute

\* datetime.date(): the calendar day of an instant
date(t) == t \div OneDay

\* datetime.weekday(): 0 = Monday .. 6 = Sunday; day 0 is a Sunday
weekday(t) == (date(t) + 6) % 7

\* datetime.replace(hour=h) alone: the minute stays
replace_hour_only(t, h) == date(t) * OneDay + h * 60 + (t % 60)

\* datetime.replace(hour=h, minute=0, second=0, microsecond=0)
replace(t, h) == date(t) * OneDay + h * 60

max(a, b) == IF a >= b THEN a ELSE b

min(a, b) == IF a <= b THEN a ELSE b

InSeq(x, s) == \E i \in 1..Len(s) : s[i] = x

----------------------------------------------------------------------------
(* The process environment read by business_duration *)

None == <<>>

Some(v) == <<v>>

\* os.getenv(key, default) followed by int()
int_getenv(value, default) == IF value = None THEN default ELSE value[1]

\* str.strip() on the pieces that INPUT_WEEKEND_DAYS.split(',') yields
strip(piece) ==
    CASE piece = " Sunday"   -> "Sunday"
      [] piece = "Saturday " -> "Saturday"
      [] piece = " "         -> ""
      [] OTHER               -> piece

\* os.getenv('INPUT_WEEKEND_DAYS', 'Saturday,Sunday').split(','), stripped
weekend_days_list(value) ==
    LET pieces == IF value = None THEN <<"Saturday", "Sunday">> ELSE value[1]
    IN  [i \in 1..Len(pieces) |-> strip(pieces[i])]

valid_days ==
    <<"Monday", "Tuesday", "Wednesday", "Thursday", "Friday", "Saturday", "Sunday">>

index_one_based(day) == CHOOSE i \in 1..Len(valid_days) : valid_days[i] = day
\* list.index on valid_days, zero-based
index(day) == (CHOOSE i \in 1..Len(valid_days) : valid_days[i] = day) - 1

filtered_weekend_days(value) ==
    SelectSeq(weekend_days_list(value), LAMBDA day : InSeq(day, valid_days))

weekend_days_to_int(value) ==
    LET days == filtered_weekend_days(value)
    IN  [i \in 1..Len(days) |-> index(days[i])]

\* line 32 with > for >=
invalid_hours_strict(ws, we) ==
    \/ ws < 0 \/ ws > 23
    \/ we < 0 \/ we > 23
    \/ ws > we

\* lines 28-33: the three checks that raise ValueError
invalid_hours(ws, we) ==
    \/ ws < 0 \/ ws > 23
    \/ we < 0 \/ we > 23
    \/ ws >= we

----------------------------------------------------------------------------
(* The day loop of business_duration *)

\* line 54 with <= for <
loop_guard_inclusive(cur, e) == cur <= e

\* while current < end
loop_guard(cur, e) == cur < e

\* line 56 with isoweekday() (1 = Monday .. 7 = Sunday) for weekday()
is_weekend_isoweekday(cur, wk) == InSeq(weekday(cur) + 1, wk)

\* if current.weekday() in weekend_days_int
is_weekend(cur, wk) == InSeq(weekday(cur), wk)

\* lines 78-79 without the added day
next_day_same(cur, ws) == replace(cur, ws)

\* current += timedelta(days=1); current = current.replace(hour=workday_start, ...)
next_day(cur, ws) == replace(cur + OneDay, ws)

\* lines 70-71 left out: the end day is not clipped to end
day_span_unclipped(cur, s, e, ws, we) ==
    LET day_start == replace(cur, ws)
        day_end   == replace(cur, we)
        current_start == IF date(cur) = date(s) THEN max(cur, day_start) ELSE day_start
    IN  day_end - current_start

\* lines 66-67 left out: the start day is not clipped to start
day_span_from_work_start(cur, s, e, ws, we) ==
    LET day_start == replace(cur, ws)
        day_end   == replace(cur, we)
        current_end == IF date(cur) = date(e) THEN min(e, day_end) ELSE day_end
    IN  current_end - day_start

\* the time one working day adds to total_duration, without the guard of line 74
day_span(cur, s, e, ws, we) ==
    LET day_start == replace(cur, ws)
        day_end   == replace(cur, we)
        current_start == IF date(cur) = date(s) THEN max(cur, day_start) ELSE day_start
        current_end   == IF date(cur) = date(e) THEN min(e, day_end) ELSE day_end
    IN  current_end - current_start

\* line 74's guard left out
worked_unguarded(cur, s, e, ws, we) == day_span(cur, s, e, ws, we)

\* if current_start < current_end: total_duration += current_end - current_start
worked(cur, s, e, ws, we) ==
    IF day_span(cur, s, e, ws, we) > 0 THEN day_span(cur, s, e, ws, we) ELSE 0

RECURSIVE loop(_, _, _, _, _, _, _)
loop(cur, total, s, e, ws, we, wk) ==
    IF ~loop_guard(cur, e) THEN total
    ELSE IF is_weekend(cur, wk)
         THEN loop(next_day(cur, ws), total, s, e, ws, we, wk)
         ELSE loop(next_day(cur, ws), total + worked(cur, s, e, ws, we), s, e, ws, we, wk)

\* business_duration(start, end) under the environment (hs, he, wd): what it
\* raises, or the timedelta it returns
business_duration(s, e, env) ==
    LET ws == int_getenv(env.INPUT_WORKING_HOURS_START, 9)
        we == int_getenv(env.INPUT_WORKING_HOURS_END, 18)
        wk == weekend_days_to_int(env.INPUT_WEEKEND_DAYS)
    IN  IF invalid_hours(ws, we)
        THEN [raised |-> "ValueError", value |-> None]
        ELSE [raised |-> "", value |-> Some(loop(s, 0, s, e, ws, we, wk))]

----------------------------------------------------------------------------
(* time_to_first_response.py: ignore_comment *)

Returned(v) == [raised |-> "", value |-> v]

Raised(exception) == [raised |-> exception, value |-> None]

\* str.lower() on the account types GitHub reports
lower(text) ==
    CASE text = "Bot"  -> "bot"
      [] text = "User" -> "user"
      [] OTHER         -> text

\* line 138 with > for <
before_ready_reversed(comment_created_at, ready_for_review_at) ==
    comment_created_at[1] > ready_for_review_at[1]

\* line 138 with <= for <
before_ready_inclusive(comment_created_at, ready_for_review_at) ==
    comment_created_at[1] <= ready_for_review_at[1]

\* comment_created_at < ready_for_review_at
before_ready(comment_created_at, ready_for_review_at) ==
    comment_created_at[1] < ready_for_review_at[1]

\* ignore_comment; a comment_user that is None has no login: AttributeError
ignore_comment(issue_user, comment_user, ignore_users, comment_created_at, ready_for_review_at) ==
    IF comment_user = None THEN Raised("AttributeError")
    ELSE
        LET user_is_ignored       == InSeq(comment_user[1].login, ignore_users)
            user_is_a_bot         == lower(comment_user[1].type) = "bot"
            user_is_issue_creator == comment_user[1].login = issue_user.login
            is_pending_comment    == comment_created_at = None
            issue_was_created_before_ready_for_review ==
                IF ready_for_review_at # None /\ ~is_pending_comment
                THEN before_ready(comment_created_at, ready_for_review_at)
                ELSE FALSE
        IN  Returned(\/ user_is_ignored
                     \/ user_is_a_bot
                     \/ user_is_issue_creator
                     \/ is_pending_comment
                     \/ issue_was_created_before_ready_for_review)

----------------------------------------------------------------------------
(* time_to_first_response.py: businessDuration, measure_time_to_first_response *)

\* businessDuration: the same loop with 9, 18 and [4, 5] written in
businessDuration(s, e) == loop(s, 0, s, e, 9, 18, <<4, 5>>)

\* datetime.fromisoformat on the text of an instant
fromisoformat(text) == text.isoformat

\* A for loop over comments or reviews, from position i: the timestamp of the
\* first one ignore_comment lets through (None when there is none), or what is
\* raised on the way.  An entry with yields = "TypeError" is one the iteration
\* itself fails to produce.
RECURSIVE first_response(_, _, _, _, _)
first_response(entries, i, issue_user, ignore_users, ready_for_review_at) ==
    IF i > Len(entries) THEN Returned(None)
    ELSE IF entries[i].yields # "" THEN Raised(entries[i].yields)
    ELSE LET ignored == ignore_comment(issue_user, entries[i].user, ignore_users,
                                       entries[i].at, ready_for_review_at)
         IN  IF ignored.raised # "" THEN ignored
             ELSE IF ignored.value
                  THEN first_response(entries, i + 1, issue_user, ignore_users,
                                      ready_for_review_at)
                  ELSE Returned(entries[i].at)

\* lines 52-53
ignore_users_of(c) == IF c.ignore_users = None THEN <<>> ELSE c.ignore_users[1]

\* lines 57-70
comment_scan(c) ==
    first_response(c.issue[1].comments, 1, c.issue[1].user, ignore_users_of(c),
                   c.ready_for_review_at)

\* lines 75-87, the body of the try
review_scan(c) ==
    first_response(c.pull_request[1].reviews, 1, c.issue[1].user, ignore_users_of(c),
                   c.ready_for_review_at)

\* lines 76-91: except TypeError leaves first_review_comment_time None
review_handler(scan) == IF scan.raised = "TypeError" THEN Returned(None) ELSE scan

\* lines 74-91
review_time(c) ==
    IF c.pull_request = None THEN Returned(None) ELSE review_handler(review_scan(c))

\* line 95 taking the later of the two
earliest_of_both_later(a, b) == max(a, b)

\* line 95
earliest_of_both(a, b) == min(a, b)

\* lines 94-101: the earliest response of an issue, None for return None
earliest_of(first_comment, first_review) ==
    IF first_comment # None /\ first_review # None
    THEN Some(earliest_of_both(first_comment[1], first_review[1]))
    ELSE IF first_comment # None THEN first_comment
    ELSE first_review

\* lines 104-107
reference_time(c) ==
    IF c.ready_for_review_at # None THEN c.ready_for_review_at
    ELSE Some(fromisoformat(c.issue[1].created_at))

\* does line 109 take the discussion's first reply
has_reply(c) == c.discussion # None /\ Len(c.discussion[1].nodes) > 0

last_reply(nodes) == nodes[Len(nodes)]
\* line 111: discussion["comments"]["nodes"][0]
first_reply(nodes) == nodes[1]

\* The whole of measure_time_to_first_response: its locals when it ends and what
\* it raises or returns.
measure_time_to_first_response(c) ==
    LET comments == IF c.issue = None THEN Returned(None) ELSE comment_scan(c)
        reviews  == IF c.issue = None \/ comments.raised # "" THEN Returned(None)
                    ELSE review_time(c)
        failed   == IF comments.raised # "" THEN comments.raised ELSE reviews.raised
        found    == earliest_of(comments.value, reviews.value)
        early    == c.issue # None /\ failed = "" /\ found = None
        earliest == IF failed # "" THEN None
                    ELSE IF early THEN found
                    ELSE IF has_reply(c)
                         THEN Some(fromisoformat(first_reply(c.discussion[1].nodes).createdAt))
                         ELSE found
        time     == IF failed # "" \/ early THEN None
                    ELSE IF has_reply(c) THEN Some(fromisoformat(c.discussion[1].createdAt))
                    ELSE IF c.issue # None THEN reference_time(c)
                    ELSE None
    IN  [first_comment_time        |-> comments.value,
         first_review_comment_time |-> reviews.value,
         earliest_response         |-> earliest,
         issue_time                |-> time,
         outcome |-> IF failed # "" THEN Raised(failed)
                     ELSE IF earliest # None /\ time # None
                          THEN Returned(Some(businessDuration(time[1], earliest[1])))
                          ELSE Returned(None)]

----------------------------------------------------------------------------
(* time_to_first_response.py: get_stats_time_to_first_response *)

\* the truth value of issue.time_to_first_response: None and timedelta(0) are false
truthy(sample) == sample # None /\ sample[1] # 0

\* lines 162-168: the total_seconds() of the samples that are kept
response_times(samples) ==
    LET kept == SelectSeq(samples, truthy)
    IN  [i \in 1..Len(kept) |-> kept[i][1]]

\* lines 163-168
none_count(samples) == Len(samples) - Len(response_times(samples))

RECURSIVE sum(_)
sum(xs) == IF xs = <<>> THEN 0 ELSE Head(xs) + sum(Tail(xs))

RECURSIVE insert(_, _)
insert(x, xs) ==
    IF xs = <<>> THEN <<x>>
    ELSE IF x <= Head(xs) THEN <<x>> \o xs
    ELSE <<Head(xs)>> \o insert(x, Tail(xs))

RECURSIVE sorted(_)
sorted(xs) == IF xs = <<>> THEN <<>> ELSE insert(Head(xs), sorted(Tail(xs)))

round_half_up(num, den) == (2 * num + den) \div (2 * den)
\* numpy.round of num / den (num >= 0, den > 0): to the nearest integer, a tie
\* to the even one
round(num, den) ==
    LET q == num \div den
        r == num % den
    IN  IF 2 * r < den THEN q
        ELSE IF 2 * r > den THEN q + 1
        ELSE IF q % 2 = 0 THEN q ELSE q + 1

\* numpy.round(numpy.average(response_times))
average(xs) == round(sum(xs), Len(xs))

\* numpy.round(numpy.median(response_times))
median(xs) ==
    LET s == sorted(xs)
        n == Len(xs)
    IN  IF n % 2 = 1 THEN s[(n + 1) \div 2]
        ELSE round(s[n \div 2] + s[n \div 2 + 1], 2)

\* numpy.round(numpy.percentile(response_times, 90)): linear interpolation
\* at the index 0.9 * (n - 1) of the sorted samples
percentile90(xs) ==
    LET s == sorted(xs)
        n == Len(xs)
        below == (9 * (n - 1)) \div 10 + 1
        tenths == (9 * (n - 1)) % 10
    IN  IF tenths = 0 THEN s[below]
        ELSE round(10 * s[below] + tenths * (s[below + 1] - s[below]), 10)

no_statistics_zeros == Some([avg |-> 0, med |-> 0, ninety |-> 0])
\* line 171: return None
no_statistics == None

\* get_stats_time_to_first_response: None, or the three timedeltas in seconds
get_stats_time_to_first_response(samples) ==
    IF Len(samples) - none_count(samples) <= 0 THEN no_statistics
    ELSE Some([avg   |-> average(response_times(samples)),
               med   |-> median(response_times(samples)),
               ninety |-> percentile90(response_times(samples))])

----------------------------------------------------------------------------
(* Inputs *)

Days == 0..MaxDay

TimesOfDay ==
    {At(0, 0, 0), At(0, 8, 30), At(0, 9, 0), At(0, 10, 0), At(0, 17, 0),
     At(0, 18, 0), At(0, 23, 30)}

Instants == {d * OneDay + t : d \in Days, t \in TimesOfDay}

Spans == {<<s, e>> \in Instants \X Instants :
             date(e) - date(s) <= MaxSpan /\ date(s) - date(e) <= 1}

\* INPUT_WORKING_HOURS_START, INPUT_WORKING_HOURS_END
HourSettings ==
    {<<None, None>>, <<Some(0), Some(23)>>, <<Some(10), Some(17)>>,
     <<Some(-1), None>>, <<Some(24), None>>, <<None, Some(-1)>>, <<None, Some(24)>>,
     <<Some(18), Some(9)>>, <<Some(0), Some(0)>>}

\* INPUT_WEEKEND_DAYS, split at the commas
WeekendSettings ==
    {None,
     Some(<<"Friday", "Saturday">>),
     Some(<<"Saturday", " Sunday", "Funday", "monday">>),
     Some(<<"">>),
     Some(valid_days)}

Environment(h, wd) ==
    [INPUT_WORKING_HOURS_START |-> h[1],
     INPUT_WORKING_HOURS_END   |-> h[2],
     INPUT_WEEKEND_DAYS        |-> wd]

Environs == {Environment(h, wd) : h \in HourSettings, wd \in WeekendSettings}

----------------------------------------------------------------------------
(* business_duration as a state machine *)

Idle ==
    /\ pc = "idle"
    /\ call = <<>>
    /\ first_comment_time = <<>>
    /\ first_review_comment_time = <<>>
    /\ earliest_response = <<>>
    /\ issue_time = <<>>
    /\ outcome = <<>>
    /\ issues = <<>>
    /\ stats = <<>>
    /\ start = 0
    /\ end = 0
    /\ workday_start = 0
    /\ workday_end = 0
    /\ weekend_days_int = <<>>
    /\ current = 0
    /\ total_duration = 0
    /\ iterations = 0

InitDuration ==
    /\ Idle
    /\ environ \in Environs

\* business_duration.py:24-33, the call with a configuration that is rejected
CallRaises ==
    /\ pc = "idle"
    /\ \E se \in Spans :
        LET ws == int_getenv(environ.INPUT_WORKING_HOURS_START, 9)
            we == int_getenv(environ.INPUT_WORKING_HOURS_END, 18)
        IN  /\ invalid_hours(ws, we)
            /\ pc' = "raised"
            /\ start' = se[1]
            /\ end' = se[2]
            /\ workday_start' = ws
            /\ workday_end' = we
            /\ UNCHANGED <<environ, weekend_days_int, current, total_duration,
                           iterations, responseVars, statsVars>>

\* business_duration.py:24-53, the call up to the loop
CallEnters ==
    /\ pc = "idle"
    /\ \E se \in Spans :
        LET ws == int_getenv(environ.INPUT_WORKING_HOURS_START, 9)
            we == int_getenv(environ.INPUT_WORKING_HOURS_END, 18)
        IN  /\ ~invalid_hours(ws, we)
            /\ pc' = "loop"
            /\ start' = se[1]
            /\ end' = se[2]
            /\ workday_start' = ws
            /\ workday_end' = we
            /\ weekend_days_int' = weekend_days_to_int(environ.INPUT_WEEKEND_DAYS)
            /\ total_duration' = 0
            /\ current' = se[1]
            /\ iterations' = 0
            /\ UNCHANGED <<environ, responseVars, statsVars>>

\* business_duration.py:54-59
SkipWeekend ==
    /\ pc = "loop"
    /\ loop_guard(current, end)
    /\ is_weekend(current, weekend_days_int)
    /\ current' = next_day(current, workday_start)
    /\ iterations' = iterations + 1
    /\ UNCHANGED <<pc, environ, start, end, workday_start, workday_end,
                   weekend_days_int, total_duration, responseVars, statsVars>>

\* business_duration.py:54-79
WorkDay ==
    /\ pc = "loop"
    /\ loop_guard(current, end)
    /\ ~is_weekend(current, weekend_days_int)
    /\ total_duration' =
           total_duration + worked(current, start, end, workday_start, workday_end)
    /\ current' = next_day(current, workday_start)
    /\ iterations' = iterations + 1
    /\ UNCHANGED <<pc, environ, start, end, workday_start, workday_end,
                   weekend_days_int, responseVars, statsVars>>

\* business_duration.py:54, 80
Return ==
    /\ pc = "loop"
    /\ ~loop_guard(current, end)
    /\ pc' = "returned"
    /\ UNCHANGED <<environ, durationVars, responseVars, statsVars>>

NextDuration == CallRaises \/ CallEnters \/ SkipWeekend \/ WorkDay \/ Return

SpecDuration == InitDuration /\ [][NextDuration]_vars

\* a call that has started is run to its end
FairDuration == SpecDuration /\ WF_vars(SkipWeekend \/ WorkDay \/ Return)

----------------------------------------------------------------------------
(* measure_time_to_first_response and ignore_comment as operations *)

alice == [login |-> "alice", type |-> "User"]

bob == [login |-> "bob", type |-> "User"]

dependabot == [login |-> "dependabot[bot]", type |-> "Bot"]

Users == {alice, bob, dependabot}

\* Friday 17:00, Sunday 10:00, Monday 10:00
ResponseTimes == {At(5, 17, 0), At(7, 10, 0), At(8, 10, 0)}

\* the ISO 8601 text of an instant
IsoText(t) == [isoformat |-> t]

\* Friday 2023-01-06 10:00
CreatedAt == IsoText(At(5, 10, 0))

Entry(user, at) == [yields |-> "", user |-> user, at |-> at]

\* a comment: a user and a created_at
Comments ==
    {Entry(Some(u), Some(t)) : u \in Users, t \in {At(7, 10, 0), At(8, 10, 0)}}
    \cup {Entry(Some(bob), Some(At(5, 17, 0)))}

\* a review: a user and a submitted_at, None while the review is pending; a
\* review without a user; and a review that the iteration raises TypeError on
Reviews ==
    {Entry(Some(bob), at) : at \in {Some(At(5, 17, 0)), Some(At(8, 10, 0)), None}}
    \cup {Entry(Some(dependabot), Some(At(5, 17, 0))), Entry(Some(alice), Some(At(5, 17, 0)))}
    \cup {Entry(None, Some(At(8, 10, 0)))}
    \cup {[yields |-> "TypeError", user |-> None, at |-> None]}

\* comments(sort="created", direction="asc")
InCreationOrder(cs) ==
    \A i \in 1..Len(cs), j \in 1..Len(cs) : i < j => cs[i].at[1] <= cs[j].at[1]

IgnoreLists == {None, Some(<<"bob">>)}

IssueCall(cs, pr, ready, ignore) ==
    [issue |-> Some([user |-> alice, created_at |-> CreatedAt, comments |-> cs]),
     discussion |-> None,
     pull_request |-> pr,
     ready_for_review_at |-> ready,
     ignore_users |-> ignore]

\* Monday 2023-01-02 00:00 and Tuesday 2023-01-03 00:00, and the response times
ReplyTimes == {At(1, 0, 0), At(2, 0, 0)} \cup ResponseTimes

\* a reply of a discussion: its createdAt text and its author
Replies == {[createdAt |-> IsoText(t), author |-> u] : t \in ReplyTimes, u \in Users}

\* replies come in time order
InReplyOrder(rs) ==
    \A i \in 1..Len(rs), j \in 1..Len(rs) :
        i < j => rs[i].createdAt.isoformat <= rs[j].createdAt.isoformat

\* no reply is older than its discussion
AfterCreation(t, rs) == \A i \in 1..Len(rs) : t <= rs[i].createdAt.isoformat

\* a discussion started by alice
DiscussionCall(t, rs, ignore) ==
    [issue |-> None,
     discussion |-> Some([createdAt |-> IsoText(t), author |-> alice, nodes |-> rs]),
     pull_request |-> None,
     ready_for_review_at |-> None,
     ignore_users |-> ignore]

\* the arguments of a call to ignore_comment
FilterCalls ==
    [issue_user : {alice},
     comment_user : {Some(u) : u \in Users} \cup {None},
     ignore_users : {<<>>, <<"bob">>, <<"alice", "dependabot[bot]">>},
     comment_created_at : {Some(t) : t \in ResponseTimes} \cup {None},
     ready_for_review_at : {None, Some(At(7, 10, 0)), Some(At(8, 10, 0))}]

\* the configurations a measurement runs under: the defaults, and the calendar
\* that businessDuration has written in
ResponseEnvirons ==
    {Environment(<<None, None>>, None),
     Environment(<<Some(9), Some(18)>>, Some(<<"Friday", "Saturday">>))}

InitResponse ==
    /\ Idle
    /\ environ \in ResponseEnvirons

\* time_to_first_response.py:29-119, the call with arguments c
Measured(c) ==
    LET m == measure_time_to_first_response(c)
    IN  /\ call' = c
        /\ first_comment_time' = m.first_comment_time
        /\ first_review_comment_time' = m.first_review_comment_time
        /\ earliest_response' = m.earliest_response
        /\ issue_time' = m.issue_time
        /\ outcome' = m.outcome
        /\ pc' = "measured"
        /\ UNCHANGED <<environ, durationVars, statsVars>>

\* measure_time_to_first_response(issue, None, None, None, ignore_users)
MeasureIssue ==
    /\ pc = "idle"
    /\ \E n \in 0..MaxEntries :
        \E cs \in [1..n -> Comments], ignore \in IgnoreLists :
            /\ InCreationOrder(cs)
            /\ Measured(IssueCall(cs, None, None, ignore))

\* measure_time_to_first_response(issue, None, pull_request, ready_for_review_at,
\* ignore_users)
MeasurePullRequest ==
    /\ pc = "idle"
    /\ \E n \in 0..MaxEntries :
        \E cs \in [1..n -> Comments] :
            /\ InCreationOrder(cs)
            /\ \E k \in 0..(MaxEntries - n) :
                \E rs \in [1..k -> Reviews], ignore \in IgnoreLists,
                   ready \in {None, Some(At(7, 10, 0))} :
                    Measured(IssueCall(cs, Some([reviews |-> rs]), ready, ignore))

\* measure_time_to_first_response(None, discussion)
MeasureDiscussion ==
    /\ pc = "idle"
    /\ \E n \in 0..MaxReplies :
        \E rs \in [1..n -> Replies], t \in {At(0, 0, 0), At(5, 10, 0)},
           ignore \in IgnoreLists :
            /\ InReplyOrder(rs)
            /\ AfterCreation(t, rs)
            /\ Measured(DiscussionCall(t, rs, ignore))

\* time_to_first_response.py:122-147
IgnoreComment ==
    /\ pc = "idle"
    /\ \E c \in FilterCalls :
        /\ call' = c
        /\ outcome' = ignore_comment(c.issue_user, c.comment_user, c.ignore_users,
                                     c.comment_created_at, c.ready_for_review_at)
    /\ pc' = "filtered"
    /\ UNCHANGED <<environ, durationVars, statsVars, first_comment_time,
                   first_review_comment_time, earliest_response, issue_time>>

NextResponse == MeasureIssue \/ MeasurePullRequest \/ MeasureDiscussion \/ IgnoreComment

SpecResponse == InitResponse /\ [][NextResponse]_vars

----------------------------------------------------------------------------
(* get_stats_time_to_first_response as an operation *)

\* time_to_first_response of an issue: None, or a timedelta in seconds
Samples == {None, Some(0), Some(1), Some(2), Some(9 * 3600), Some(18 * 3600)}

InitStats ==
    /\ Idle
    /\ environ = Environment(<<None, None>>, None)

\* time_to_first_response.py:150-190
Summarize ==
    /\ pc = "idle"
    /\ \E n \in 0..MaxIssues :
        \E samples \in [1..n -> Samples] :
            /\ issues' = samples
            /\ stats' = get_stats_time_to_first_response(samples)
    /\ pc' = "summarized"
    /\ UNCHANGED <<environ, durationVars, responseVars>>

NextStats == Summarize

SpecStats == InitStats /\ [][NextStats]_vars

----------------------------------------------------------------------------
(* Claims about business_duration *)

\* the configuration the call read is one the validation accepts
ValidCalendar ==
    LET ws == int_getenv(environ.INPUT_WORKING_HOURS_START, 9)
        we == int_getenv(environ.INPUT_WORKING_HOURS_END, 18)
    IN  ws \in 0..23 /\ we \in 0..23 /\ ws < we

\* C1: with start >= end and a valid calendar the call raises nothing, the
\* loop body never runs (the cursor stays at start) and the total stays zero.
C1_ZeroWhenStartNotBeforeEnd ==
    (pc # "idle" /\ start >= end /\ ValidCalendar) =>
        /\ pc \in {"loop", "returned"}
        /\ current = start
        /\ total_duration = 0

C1_Witness ==
    /\ pc = "returned"
    /\ start = end
    /\ start = At(1, 10, 0)
    /\ workday_start = 9 /\ workday_end = 18
    /\ weekend_days_int = <<4, 5>>

\* the working time of calendar day d inside [s, e]
DayShare(d, s, e, ws, we) == max(0, min(e, At(d, we, 0)) - max(s, At(d, ws, 0)))

RECURSIVE SumOfDays(_, _, _, _, _, _, _)
SumOfDays(d, last, s, e, ws, we, wk) ==
    IF d > last THEN 0
    ELSE (IF InSeq(weekday(At(d, 0, 0)), wk) THEN 0 ELSE DayShare(d, s, e, ws, we))
         + SumOfDays(d + 1, last, s, e, ws, we, wk)

\* C2: for start < end the result is the sum over the working days d from
\* start's date to end's date of max(0, min(end, d at workEnd) - max(start, d at
\* workStart)); inside one working day's hours it is end - start; and the three
\* scenarios under weekend {Friday, Saturday}, hours 9-18 give 9h, 18h and 10h.
C2_SumOverWorkingDays ==
    (pc = "returned" /\ start < end) =>
        /\ total_duration = SumOfDays(date(start), date(end), start, end,
                                      workday_start, workday_end, weekend_days_int)
        /\ (/\ date(start) = date(end)
            /\ ~InSeq(weekday(start), weekend_days_int)
            /\ start >= replace(start, workday_start)
            /\ end <= replace(end, workday_end)) => total_duration = end - start
        /\ (workday_start = 9 /\ workday_end = 18 /\ weekend_days_int = <<4, 5>>) =>
            /\ (start = At(0, 0, 0) /\ end = At(1, 0, 0)) => total_duration = Hours(9)
            /\ (start = At(0, 0, 0) /\ end = At(2, 0, 0)) => total_duration = Hours(18)
            /\ (start = At(5, 17, 0) /\ end = At(8, 10, 0)) => total_duration = Hours(10)

C2_Witness ==
    /\ pc = "returned"
    /\ workday_start = 9 /\ workday_end = 18 /\ weekend_days_int = <<4, 5>>
    /\ start = At(5, 17, 0) /\ end = At(8, 10, 0)
    /\ total_duration = Hours(10)

\* C8: when start falls on a weekend day the result is that of the call
\* starting at the work-start instant of the following calendar day, and it is
\* zero when every day from start's date to end's date is a weekend day.
C8_WeekendStartCountsNothing ==
    (pc = "returned" /\ InSeq(weekday(start), weekend_days_int)) =>
        LET S == At(date(start) + 1, workday_start, 0)
        IN  /\ total_duration =
                   loop(S, 0, S, end, workday_start, workday_end, weekend_days_int)
            /\ (\A d \in date(start)..date(end) :
                    InSeq(weekday(At(d, 0, 0)), weekend_days_int)) => total_duration = 0

C8_Witness ==
    /\ pc = "returned"
    /\ InSeq(weekday(start), weekend_days_int)
    /\ start > replace(start, workday_start)
    /\ start < replace(start, workday_end)
    /\ date(end) = date(start) + 2
    /\ total_duration > 0

\* C9: business_duration is monotonic in end: an earlier end never gives more.
C9_MonotonicInEnd ==
    pc = "returned" =>
        \A e1 \in Instants :
            e1 <= end =>
                loop(start, 0, start, e1, workday_start, workday_end, weekend_days_int)
                    <= total_duration

C9_Witness ==
    /\ pc = "returned"
    /\ total_duration > 0
    /\ \E e1 \in Instants :
        /\ e1 < end
        /\ e1 > start
        /\ 0 < loop(start, 0, start, e1, workday_start, workday_end, weekend_days_int)
        /\ loop(start, 0, start, e1, workday_start, workday_end, weekend_days_int)
               < total_duration

\* C10: the call raises exactly when an hour is outside 0..23 or workStartHour
\* >= workEndHour, whatever start and end are, and then nothing was computed.
C10_RaisesExactlyOnInvalidHours ==
    pc # "idle" =>
        /\ pc = "raised" <=> ~ValidCalendar
        /\ pc = "raised" =>
               total_duration = 0 /\ current = 0 /\ weekend_days_int = <<>>

C10_Witness ==
    /\ pc = "raised"
    /\ workday_start = workday_end
    /\ start >= end

----------------------------------------------------------------------------
(* Claims about measure_time_to_first_response and ignore_comment *)

\* the call measured an issue or a pull request
IssueMeasured == pc = "measured" /\ call.issue # None

\* C3: the duration returned for an issue or pull request is the calculator's
\* result under the configured calendar, from readyForReviewAt when it is set
\* and from createdAt otherwise, to the earliest response.
C3_UsesConfiguredCalendar ==
    (IssueMeasured /\ outcome.raised = "" /\ outcome.value # None /\ ValidCalendar) =>
        /\ issue_time = IF call.ready_for_review_at # None
                        THEN call.ready_for_review_at
                        ELSE Some(call.issue[1].created_at.isoformat)
        /\ outcome.value =
               business_duration(issue_time[1], earliest_response[1], environ).value

\* the five reasons to ignore a candidate, stated on the arguments
IgnoredByRule(issue_user, user, ignore_list, at, ready) ==
    \/ \E i \in 1..Len(ignore_list) : ignore_list[i] = user.login
    \/ user.type = "Bot"
    \/ user.login = issue_user.login
    \/ at = None
    \/ ready # None /\ at # None /\ at[1] < ready[1]

\* C4: ignore_comment returns true exactly when the author is in the ignore
\* list, or is a bot, or is the item's creator, or the timestamp is pending, or
\* readyForReviewAt is set and the timestamp is strictly before it.
C4_IgnoredIffAnyOfFive ==
    (pc = "filtered" /\ call.comment_user # None) =>
        outcome = Returned(IgnoredByRule(call.issue_user, call.comment_user[1],
                                         call.ignore_users, call.comment_created_at,
                                         call.ready_for_review_at))

C4_Witness ==
    /\ pc = "filtered"
    /\ call.comment_user = Some(bob)
    /\ call.ignore_users = <<>>
    /\ call.comment_created_at = Some(At(7, 10, 0))
    /\ call.ready_for_review_at = Some(At(7, 10, 0))
    /\ outcome = Returned(FALSE)

\* every review of the sequence can be produced and has an author
WellFormed(entries) ==
    \A i \in 1..Len(entries) : entries[i].yields = "" /\ entries[i].user # None

\* the timestamp of the first entry that no rule ignores, None without one
FirstQualifying(entries, c) ==
    LET qualifying == {i \in 1..Len(entries) :
                          ~IgnoredByRule(c.issue[1].user, entries[i].user[1],
                                         ignore_users_of(c), entries[i].at,
                                         c.ready_for_review_at)}
    IN  IF qualifying = {} THEN None
        ELSE entries[CHOOSE i \in qualifying : \A j \in qualifying : i <= j].at

ReviewsOf(c) == IF c.pull_request = None THEN <<>> ELSE c.pull_request[1].reviews

\* C5: the response instant of an issue or pull request is the minimum of the
\* first qualifying comment's and the first qualifying review's timestamps,
\* whichever exist, and the call returns None exactly when neither exists.
C5_EarliestQualifyingResponse ==
    (IssueMeasured /\ WellFormed(ReviewsOf(call))) =>
        LET a == FirstQualifying(call.issue[1].comments, call)
            b == FirstQualifying(ReviewsOf(call), call)
        IN  /\ outcome.raised = ""
            /\ earliest_response =
                   IF a # None /\ b # None
                   THEN (IF a[1] <= b[1] THEN a ELSE b)
                   ELSE IF a # None THEN a ELSE b
            /\ outcome.value = None <=> (a = None /\ b = None)

C5_Witness ==
    /\ IssueMeasured
    /\ call.pull_request # None
    /\ WellFormed(ReviewsOf(call))
    /\ first_comment_time = Some(At(8, 10, 0))
    /\ first_review_comment_time = Some(At(5, 17, 0))
    /\ earliest_response = Some(At(5, 17, 0))
    /\ outcome.value # None

\* the same call with an empty review sequence
WithoutReviews(c) == [c EXCEPT !.pull_request = Some([reviews |-> <<>>])]

\* C6: when the review scan of a pull request fails on a review's author data,
\* nothing is raised and the call returns what it returns for the same item
\* with no reviews.
C6_ReviewFailureSwallowed ==
    (IssueMeasured /\ call.pull_request # None /\ review_scan(call).raised # "") =>
        /\ outcome.raised = ""
        /\ first_review_comment_time = None
        /\ outcome = measure_time_to_first_response(WithoutReviews(call)).outcome

----------------------------------------------------------------------------
(* Claims about get_stats_time_to_first_response *)

\* the samples that are present, a zero duration among them
Present(samples) == SelectSeq(samples, LAMBDA x : x # None)

\* C7: only absent samples are dropped: an input with a present sample, zero
\* included, yields statistics, and these are the statistics of all present
\* samples.
C7_ZeroSamplesKept ==
    pc = "summarized" =>
        /\ stats = None <=> Present(issues) = <<>>
        /\ stats # None =>
               LET xs == [i \in 1..Len(Present(issues)) |-> Present(issues)[i][1]]
               IN  stats[1] = [avg |-> average(xs), med |-> median(xs),
                               ninety |-> percentile90(xs)]

\* C11: a discussion is measured without any filtering: with replies the result
\* is the business duration (hours 9-18, weekend Friday and Saturday) from its
\* createdAt to its first reply's createdAt, whoever wrote the reply and whatever
\* the ignore list (2023-01-01T00:00 to 2023-01-02T00:00 gives 9h, to
\* 2023-01-03T00:00 gives 18h); without replies it is None.
C11_DiscussionFirstReplyUnfiltered ==
    (pc = "measured" /\ call.discussion # None) =>
        LET created == call.discussion[1].createdAt.isoformat
            nodes   == call.discussion[1].nodes
        IN  /\ outcome.raised = ""
            /\ nodes = <<>> => outcome.value = None
            /\ nodes # <<>> =>
                   LET reply == nodes[1].createdAt.isoformat
                   IN  /\ outcome.value =
                              Some(IF created < reply
                                   THEN SumOfDays(date(created), date(reply), created,
                                                  reply, 9, 18, <<4, 5>>)
                                   ELSE 0)
                       /\ (created = At(0, 0, 0) /\ reply = At(1, 0, 0)) =>
                              outcome.value = Some(Hours(9))
                       /\ (created = At(0, 0, 0) /\ reply = At(2, 0, 0)) =>
                              outcome.value = Some(Hours(18))

\* the first of two replies is by bob, who is on the ignore list, and counts
C11_Witness ==
    /\ pc = "measured"
    /\ call.discussion # None
    /\ call.ignore_users = Some(<<"bob">>)
    /\ call.discussion[1].createdAt = IsoText(At(0, 0, 0))
    /\ Len(call.discussion[1].nodes) = 2
    /\ call.discussion[1].nodes[1] = [createdAt |-> IsoText(At(1, 0, 0)), author |-> bob]
    /\ call.discussion[1].nodes[2].createdAt = IsoText(At(2, 0, 0))
    /\ outcome = Returned(Some(Hours(9)))

\* C12: when the input is empty or every sample in it is absent,
\* get_stats_time_to_first_response returns None: no statistics, zeros or other.
C12_NoneWithoutSamples ==
    (pc = "summarized" /\ Present(issues) = <<>>) => stats = None

\* two issues, neither with a first response
C12_Witness ==
    /\ pc = "summarized"
    /\ issues = <<None, None>>
    /\ stats = None

\* the seconds the statistics are taken over, in ascending order
KeptSorted == sorted(response_times(issues))

\* num / den of the median: the mean of the two middle samples (the same
\* sample twice for an odd count)
MedianTwice ==
    LET n == Len(KeptSorted)
    IN  KeptSorted[(n + 1) \div 2] + KeptSorted[n \div 2 + 1]

\* ten times the value at the fractional index 0.9 * (n - 1)
NinetyTenfold ==
    LET n     == Len(KeptSorted)
        below == (9 * (n - 1)) \div 10 + 1
        part  == (9 * (n - 1)) % 10
    IN  10 * KeptSorted[below]
        + (IF part = 0 THEN 0 ELSE part * (KeptSorted[below + 1] - KeptSorted[below]))

\* v is an integer nearest to num / den
Nearest(v, num, den) ==
    LET off == IF den * v >= num THEN den * v - num ELSE num - den * v
    IN  2 * off <= den

\* v is the integer nearest to num / den, the even one of two
NearestEven(v, num, den) ==
    /\ Nearest(v, num, den)
    /\ (2 * den * v - 2 * num \in {den, 0 - den}) => v % 2 = 0

\* C13 as stated: with a kept sample, the average is the mean rounded to the
\* nearest whole second, the median is the linear-interpolation median itself
\* and p90 is the value at the fractional index 0.9 * (n - 1) itself.
C13_MedianAndP90Unrounded ==
    (pc = "summarized" /\ stats # None) =>
        /\ Nearest(stats[1].avg, sum(KeptSorted), Len(KeptSorted))
        /\ 2 * stats[1].med = MedianTwice
        /\ 10 * stats[1].ninety = NinetyTenfold

\* C13, amended: with a kept sample, average, median and p90 are the mean, the
\* linear-interpolation median and the value at the fractional index
\* 0.9 * (n - 1), each rounded to the nearest whole second, a tie to the even
\* one; {9h, 18h} gives 13.5h, 13.5h and 9h + 0.9 * 9h.
C13_AllThreeRounded ==
    (pc = "summarized" /\ stats # None) =>
        /\ NearestEven(stats[1].avg, sum(KeptSorted), Len(KeptSorted))
        /\ NearestEven(stats[1].med, MedianTwice, 2)
        /\ NearestEven(stats[1].ninety, NinetyTenfold, 10)
        /\ KeptSorted = <<9 * 3600, 18 * 3600>> =>
               stats[1] = [avg |-> 48600, med |-> 48600, ninety |-> 61560]

\* 1s and 2s: the mean and the median 1.5s and the p90 1.9s all become 2s
C13_Witness ==
    /\ pc = "summarized"
    /\ issues = <<Some(1), Some(2)>>
    /\ stats = Some([avg |-> 2, med |-> 2, ninety |-> 2])

\* the pieces of INPUT_WEEKEND_DAYS, the default when it is not set
WeekendPieces ==
    IF environ.INPUT_WEEKEND_DAYS = None THEN <<"Saturday", "Sunday">>
    ELSE environ.INPUT_WEEKEND_DAYS[1]

\* the piece, surrounding blanks apart, is one of the seven names
Canonical(piece) == \E i \in 1..7 : valid_days[i] = strip(piece)

\* the environment with the unrecognized names taken out of the list (a list
\* left without any name is the empty text, which splits into one empty piece)
WithoutUnrecognized ==
    LET named == SelectSeq(WeekendPieces, Canonical)
    IN  [environ EXCEPT !.INPUT_WEEKEND_DAYS =
             IF environ.INPUT_WEEKEND_DAYS = None THEN None
             ELSE IF named = <<>> THEN Some(<<"">>) ELSE Some(named)]

\* C14: a weekend day name that is not one of the seven canonical names raises
\* nothing and changes nothing: the weekend days of the call are exactly the
\* weekdays named in the list, and what the call raises or returns is what it
\* raises or returns for the list without the unrecognized names.
C14_UnrecognizedNamesDropped ==
    (pc \in {"raised", "loop", "returned"}) =>
        LET cleaned == business_duration(start, end, WithoutUnrecognized)
        IN  /\ pc = "raised" <=> cleaned.raised # ""
            /\ pc = "raised" => invalid_hours(workday_start, workday_end)
            /\ pc # "raised" =>
                   {weekend_days_int[k] : k \in 1..Len(weekend_days_int)} =
                       {d \in 0..6 : \E k \in 1..Len(WeekendPieces) :
                                         strip(WeekendPieces[k]) = valid_days[d + 1]}
            /\ pc = "returned" => Some(total_duration) = cleaned.value

\* Saturday 10:00 to Monday 10:00 with "Saturday, Sunday,Funday,monday": the
\* weekend is Saturday and Sunday, and Monday counts its hour
C14_Witness ==
    /\ pc = "returned"
    /\ environ = Environment(<<None, None>>, Some(<<"Saturday", " Sunday", "Funday", "monday">>))
    /\ start = At(6, 10, 0)
    /\ end = At(8, 10, 0)
    /\ weekend_days_int = <<5, 6>>
    /\ total_duration = Hours(1)

\* one run of the loop body
Iteration == SkipWeekend \/ WorkDay

\* C15: the loop ends for every start, end and weekend list, all seven days
\* included: every iteration puts the cursor at the work start of the next
\* calendar date, which is later than the cursor was, and the body runs at most
\* (end's date - start's date) + 1 times (not at all when start >= end).
C15_LoopTerminates ==
    /\ [][Iteration => /\ current' = At(date(current) + 1, workday_start, 0)
                       /\ current' > current]_vars
    /\ [](pc \in {"loop", "returned"} =>
              iterations <= max(0, date(end) - date(start) + 1))
    /\ [](pc \in {"loop", "returned"} /\ start >= end => iterations = 0)
    /\ (pc = "loop" ~> pc = "returned")

\* every day is a weekend day: Sunday 10:00 to Wednesday 10:00 takes four
\* iterations and counts nothing
C15_Witness ==
    /\ pc = "returned"
    /\ Len(weekend_days_int) = 7
    /\ start = At(0, 10, 0)
    /\ end = At(3, 10, 0)
    /\ iterations = 4
    /\ total_duration = 0

\* C16: in every state of the loop the running total is at least zero and at
\* most the time from start to end (zero when start >= end), so the returned
\* duration d has 0 <= d <= max(0, end - start); an iteration never lowers the
\* total and raises it by at most workday_end - workday_start hours.
C16_TotalBounded ==
    /\ [](pc \in {"loop", "returned"} =>
              /\ 0 <= total_duration
              /\ total_duration <= max(0, end - start))
    /\ [][Iteration =>
              /\ total_duration' >= total_duration
              /\ total_duration' - total_duration
                     <= Hours(workday_end - workday_start)]_vars

\* Monday 09:00 to 18:00 under the default calendar: one iteration adds the
\* whole working day, which is all the time between start and end
C16_Witness ==
    /\ pc = "returned"
    /\ start = At(1, 9, 0)
    /\ end = At(1, 18, 0)
    /\ workday_start = 9
    /\ workday_end = 18
    /\ iterations = 1
    /\ total_duration = end - start

\* C17: for a valid calendar and instants a <= b <= c the durations of a..b
\* and b..c add up to the duration of a..c, for every b: on a weekend day,
\* outside the working hours, on their edge; the same holds of businessDuration.
C17_AdditiveOverAdjacentSpans ==
    (pc = "returned" /\ start <= end) =>
        \A b \in Instants :
            (start <= b /\ b <= end) =>
                /\ business_duration(start, b, environ).value[1]
                       + business_duration(b, end, environ).value[1] = total_duration
                /\ businessDuration(start, b) + businessDuration(b, end)
                       = businessDuration(start, end)

\* Friday 10:00 to Monday 10:00 with Saturday and Sunday off, split at
\* Saturday 23:30: 8h up to there, 1h from there, 9h in all
C17_Witness ==
    /\ pc = "returned"
    /\ environ = Environment(<<None, None>>, None)
    /\ start = At(5, 10, 0)
    /\ end = At(8, 10, 0)
    /\ business_duration(start, At(6, 23, 30), environ).value = Some(Hours(8))
    /\ business_duration(At(6, 23, 30), end, environ).value = Some(Hours(1))
    /\ total_duration = Hours(9)

\* v is None or an instant not before t
NotBefore(v, t) == v = None \/ v[1] >= t

\* C18: for an issue or pull request with ready_for_review_at set, no comment
\* or review from before ready_for_review_at is taken as the first response:
\* when a duration is returned, it is measured from ready_for_review_at to a
\* response instant that is not earlier, never over a reversed pair.
C18_ResponseNotBeforeReady ==
    (IssueMeasured /\ call.ready_for_review_at # None /\ outcome.raised = "") =>
        LET ready == call.ready_for_review_at[1]
        IN  /\ NotBefore(first_comment_time, ready)
            /\ NotBefore(first_review_comment_time, ready)
            /\ outcome.value # None =>
                   /\ issue_time = Some(ready)
                   /\ earliest_response # None
                   /\ earliest_response[1] >= ready

\* ready on Sunday 10:00: bob's comment of Friday 17:00 is passed over and his
\* comment of Monday 10:00 is the response, nine working hours later
C18_Witness ==
    /\ IssueMeasured
    /\ call.ready_for_review_at = Some(At(7, 10, 0))
    /\ call.ignore_users = None
    /\ Len(call.issue[1].comments) = 2
    /\ call.issue[1].comments[1] = Entry(Some(bob), Some(At(5, 17, 0)))
    /\ call.issue[1].comments[2] = Entry(Some(bob), Some(At(8, 10, 0)))
    /\ ReviewsOf(call) = <<>>
    /\ earliest_response = Some(At(8, 10, 0))
    /\ outcome = Returned(Some(Hours(9)))

====
